---- MODULE Spec2Model ----
(***************************************************************************)
(* Rustforce: SalesforceClient (authorize, insert_record, query_records)   *)
(* and the entry-point driver main.                                        *)
(*                                                                         *)
(* A response body is a text, modelled as a sequence of JSON tokens.  The  *)
(* server either serialises a JSON value (Serialize) or sends a malformed  *)
(* text; the client decodes it with from_str, a recursive-descent parser.  *)
(***************************************************************************)
EXTENDS Integers, Sequences, FiniteSets, TLC

(***************************************************************************)
(* Bounds                                                                  *)
(***************************************************************************)
\* number of calls the caller of the library makes on one client
MaxCalls == 3

(***************************************************************************)
(* Program constants                                                       *)
(***************************************************************************)
\* reqwest::StatusCode::OK
StatusOK == 200
\* reqwest::StatusCode::CREATED
StatusCREATED == 201
\* the text substituted when the body cannot be read
FailedToRead == "Failed to read response"
\* the message of the parse error for a 201 response without a string id
MissingIdMsg == "Missing ID in response"

(***************************************************************************)
(* JSON values (serde_json::Value): t is the kind, s the payload of a      *)
(* string/number/literal, kv the members of an object (k = key) or the     *)
(* elements of an array (k = "").                                          *)
(***************************************************************************)
JNull == [t |-> "null", s |-> "null", kv |-> <<>>]
\* b is "true" or "false"
JBool(b) == [t |-> "bool", s |-> b, kv |-> <<>>]
JNum(n) == [t |-> "num", s |-> n, kv |-> <<>>]
JStr(x) == [t |-> "str", s |-> x, kv |-> <<>>]
JArr(elems) == [t |-> "arr", s |-> "", kv |-> [i \in 1..Len(elems) |-> [k |-> "", v |-> elems[i]]]]
JObj(members) == [t |-> "obj", s |-> "", kv |-> members]
M(key, val) == [k |-> key, v |-> val]

(***************************************************************************)
(* Tokens of a body text                                                   *)
(***************************************************************************)
Tok(kind, payload) == [t |-> kind, s |-> payload]
TStr(x) == Tok("str", x)
TNum(n) == Tok("num", n)
TLit(x) == Tok("lit", x)
TP(p) == Tok(p, "")
\* characters that are not JSON at all (e.g. an HTML error page)
TRaw(x) == Tok("raw", x)

(***************************************************************************)
(* The server's side: a JSON value written out as a body text.             *)
(***************************************************************************)
RECURSIVE Serialize(_), SerializeMembers(_, _)
Serialize(v) ==
    CASE v.t = "null" -> <<TLit("null")>>
      [] v.t = "bool" -> <<TLit(v.s)>>
      [] v.t = "num" -> <<TNum(v.s)>>
      [] v.t = "str" -> <<TStr(v.s)>>
      [] v.t = "arr" -> <<TP("[")>> \o SerializeMembers(v.kv, FALSE) \o <<TP("]")>>
      [] v.t = "obj" -> <<TP("{")>> \o SerializeMembers(v.kv, TRUE) \o <<TP("}")>>

SerializeMembers(kv, keyed) ==
    IF kv = <<>> THEN <<>>
    ELSE (IF keyed THEN <<TStr(kv[1].k), TP(":")>> ELSE <<>>)
         \o Serialize(kv[1].v)
         \o (IF Len(kv) > 1 THEN <<TP(",")>> \o SerializeMembers(Tail(kv), keyed)
             ELSE <<>>)

(***************************************************************************)
(* serde_json::from_str::<Value>: a recursive-descent parser.  A parse     *)
(* step yields [ok, val, rest, err]; from_str rejects trailing tokens.     *)
(***************************************************************************)
POk(val, rest) == [ok |-> TRUE, val |-> val, rest |-> rest, err |-> ""]
PErr(msg) == [ok |-> FALSE, val |-> JNull, rest |-> <<>>, err |-> msg]

\* serde_json::Map::insert: a repeated key overwrites the earlier value
RECURSIVE MapInsert(_, _, _)
MapInsert(members, key, val) ==
    IF members = <<>> THEN <<M(key, val)>>
    ELSE IF Head(members).k = key THEN <<M(key, val)>> \o Tail(members)
    ELSE <<Head(members)>> \o MapInsert(Tail(members), key, val)

RECURSIVE ParseValue(_), ParseMembers(_, _), ParseElements(_, _)
ParseValue(ts) ==
    IF ts = <<>> THEN PErr("EOF while parsing a value")
    ELSE LET h == Head(ts)
             r == Tail(ts)
         IN CASE h.t = "str" -> POk(JStr(h.s), r)
              [] h.t = "num" -> POk(JNum(h.s), r)
              [] h.t = "lit" -> POk(IF h.s = "null" THEN JNull ELSE JBool(h.s), r)
              [] h.t = "{" ->
                   IF r # <<>> /\ Head(r).t = "}" THEN POk(JObj(<<>>), Tail(r))
                   ELSE ParseMembers(r, <<>>)
              [] h.t = "[" ->
                   IF r # <<>> /\ Head(r).t = "]" THEN POk(JArr(<<>>), Tail(r))
                   ELSE ParseElements(r, <<>>)
              [] OTHER -> PErr("expected value")

ParseMembers(ts, acc) ==
    IF ts = <<>> THEN PErr("EOF while parsing an object")
    ELSE IF Head(ts).t # "str" THEN PErr("key must be a string")
    ELSE IF Len(ts) < 2 THEN PErr("EOF while parsing an object")
    ELSE IF ts[2].t # ":" THEN PErr("expected colon")
    ELSE LET pv == ParseValue(SubSeq(ts, 3, Len(ts)))
         IN IF ~pv.ok THEN pv
            ELSE LET acc2 == MapInsert(acc, Head(ts).s, pv.val)
                 IN IF pv.rest = <<>> THEN PErr("EOF while parsing an object")
                    ELSE IF Head(pv.rest).t = "}" THEN POk(JObj(acc2), Tail(pv.rest))
                    ELSE IF Head(pv.rest).t = "," THEN ParseMembers(Tail(pv.rest), acc2)
                    ELSE PErr("expected comma or closing brace")

ParseElements(ts, acc) ==
    LET pv == ParseValue(ts)
    IN IF ~pv.ok THEN pv
       ELSE LET acc2 == Append(acc, pv.val)
            IN IF pv.rest = <<>> THEN PErr("EOF while parsing a list")
               ELSE IF Head(pv.rest).t = "]" THEN POk(JArr(acc2), Tail(pv.rest))
               ELSE IF Head(pv.rest).t = "," THEN ParseElements(Tail(pv.rest), acc2)
               ELSE PErr("expected comma or closing bracket")

\* serde_json::from_str::<Value>(text): [ok, val, err]
from_str(text) ==
    LET pv == ParseValue(text)
    IN IF ~pv.ok THEN [ok |-> FALSE, val |-> JNull, err |-> pv.err]
       ELSE IF pv.rest # <<>>
            THEN [ok |-> FALSE, val |-> JNull, err |-> "trailing characters"]
       ELSE [ok |-> TRUE, val |-> pv.val, err |-> ""]

\* Value's Index<&str>: the member of an object, Value::Null for a missing
\* key or a value that is not an object
RECURSIVE Lookup(_, _)
Lookup(members, key) ==
    IF members = <<>> THEN JNull
    ELSE IF Head(members).k = key THEN Head(members).v
    ELSE Lookup(Tail(members), key)

Index(v, key) == IF v.t = "obj" THEN Lookup(v.kv, key) ELSE JNull

HasKey(v, key) == v.t = "obj" /\ \E i \in 1..Len(v.kv) : v.kv[i].k = key

\* Value::as_str: Option<&str>
\* Option<String>
None == [some |-> FALSE, v |-> ""]
Some(x) == [some |-> TRUE, v |-> x]
as_str(v) == IF v.t = "str" THEN Some(v.s) ELSE None

(***************************************************************************)
(* serde_json::from_str::<AuthResponse>: the decoder derived for the       *)
(* struct.  Unknown members are ignored; both fields must be present and   *)
(* strings.  The derived visitor also accepts the struct written as a      *)
(* sequence of its fields in declaration order (visit_seq).                *)
(***************************************************************************)
AOk(tok, url) == [ok |-> TRUE, access_token |-> tok, instance_url |-> url, err |-> ""]
AErr(msg) == [ok |-> FALSE, access_token |-> "", instance_url |-> "", err |-> msg]

AuthResponseFromValue(v) ==
    CASE v.t = "obj" ->
           IF ~HasKey(v, "access_token") THEN AErr("missing field access_token")
           ELSE IF Index(v, "access_token").t # "str" THEN AErr("invalid type")
           ELSE IF ~HasKey(v, "instance_url") THEN AErr("missing field instance_url")
           ELSE IF Index(v, "instance_url").t # "str" THEN AErr("invalid type")
           ELSE AOk(Index(v, "access_token").s, Index(v, "instance_url").s)
      [] v.t = "arr" ->
           IF Len(v.kv) < 2 THEN AErr("invalid length")
           ELSE IF v.kv[1].v.t # "str" \/ v.kv[2].v.t # "str" THEN AErr("invalid type")
           ELSE IF Len(v.kv) > 2 THEN AErr("trailing characters")
           ELSE AOk(v.kv[1].v.s, v.kv[2].v.s)
      [] OTHER -> AErr("invalid type")

AuthResponseFromStr(text) ==
    LET p == from_str(text)
    IN IF ~p.ok THEN AErr(p.err) ELSE AuthResponseFromValue(p.val)

(***************************************************************************)
(* AuthError and the results of the three operations.                      *)
(*   kind   "Ok", "ReqwestError", "ParseError", "CustomError"; "Panic" is  *)
(*          an unwrap on None, which returns nothing to the caller         *)
(*   msg    the message of a ParseError, the prefix of a CustomError       *)
(*   status, text   the status and body a CustomError is formatted from    *)
(*   id     insert_record's Ok(String); value   query_records's Ok(Value)  *)
(***************************************************************************)
Result(kind, msg, status, text, id, value) ==
    [kind |-> kind, msg |-> msg, status |-> status, text |-> text,
     id |-> id, value |-> value]
ReqwestError == Result("ReqwestError", "send", 0, <<>>, "", JNull)
ParseError(msg) == Result("ParseError", msg, 0, <<>>, "", JNull)
CustomError(prefix, status, text) == Result("CustomError", prefix, status, text, "", JNull)
OkUnit == Result("Ok", "", 0, <<>>, "", JNull)
OkId(id) == Result("Ok", "", 0, <<>>, id, JNull)
OkValue(value) == Result("Ok", "", 0, <<>>, "", value)
Panic == Result("Panic", "called Option::unwrap() on a None value", 0, <<>>, "", JNull)

\* SalesforceClient::new
NewClient == [token |-> None, instance_url |-> None]

\* what a call yields: the client afterwards, the result, and the number of
\* HTTP requests it sent
Outcome(self, res, requests) == [self |-> self, res |-> res, requests |-> requests]

\* res.text().await.unwrap_or_else(|_| "Failed to read response")
ResponseText(net) == IF net.read THEN net.body ELSE <<TRaw(FailedToRead)>>

\* authorize storing the token but not the instance URL
authorize_token_only(self, net) ==
    IF ~net.send THEN Outcome(self, ReqwestError, 1)
    ELSE LET status == net.status
             error_text == ResponseText(net)
         IN IF status # StatusOK
            THEN Outcome(self, CustomError("Error", status, error_text), 1)
            ELSE LET auth_response == AuthResponseFromStr(error_text)
                 IN IF ~auth_response.ok
                    THEN Outcome(self, ParseError(auth_response.err), 1)
                    ELSE Outcome([token |-> Some(auth_response.access_token),
                                  instance_url |-> self.instance_url],
                                 OkUnit, 1)

\* authorize dropping the session when the endpoint refuses the credentials
authorize_logout(self, net) ==
    IF ~net.send THEN Outcome(self, ReqwestError, 1)
    ELSE LET status == net.status
             error_text == ResponseText(net)
         IN IF status # StatusOK
            THEN Outcome(NewClient, CustomError("Error", status, error_text), 1)
            ELSE LET auth_response == AuthResponseFromStr(error_text)
                 IN IF ~auth_response.ok
                    THEN Outcome(self, ParseError(auth_response.err), 1)
                    ELSE Outcome([token |-> Some(auth_response.access_token),
                                  instance_url |-> Some(auth_response.instance_url)],
                                 OkUnit, 1)

\* SalesforceClient::authorize(&mut self, constants)
authorize(self, net) ==
    IF ~net.send THEN Outcome(self, ReqwestError, 1)
    ELSE LET status == net.status
             error_text == ResponseText(net)
         IN IF status # StatusOK
            THEN Outcome(self, CustomError("Error", status, error_text), 1)
            ELSE LET auth_response == AuthResponseFromStr(error_text)
                 IN IF ~auth_response.ok
                    THEN Outcome(self, ParseError(auth_response.err), 1)
                    ELSE Outcome([token |-> Some(auth_response.access_token),
                                  instance_url |-> Some(auth_response.instance_url)],
                                 OkUnit, 1)

\* insert_record revoking the session on a non-success status
insert_record_revoke(self, net) ==
    IF ~self.instance_url.some \/ ~self.token.some THEN Outcome(self, Panic, 0)
    ELSE IF ~net.send THEN Outcome(self, ReqwestError, 1)
    ELSE LET status == net.status
             response_text == ResponseText(net)
         IN IF status # StatusCREATED
            THEN Outcome(NewClient, CustomError("Failed to create record", status, response_text), 1)
            ELSE LET response_json == from_str(response_text)
                 IN IF ~response_json.ok
                    THEN Outcome(self, ParseError(response_json.err), 1)
                    ELSE LET id == as_str(Index(response_json.val, "id"))
                         IN IF ~id.some
                            THEN Outcome(self, ParseError(MissingIdMsg), 1)
                            ELSE Outcome(self, OkId(id.v), 1)

\* insert_record taking 200 for success as well as 201
insert_record_any_success(self, net) ==
    IF ~self.instance_url.some \/ ~self.token.some THEN Outcome(self, Panic, 0)
    ELSE IF ~net.send THEN Outcome(self, ReqwestError, 1)
    ELSE LET status == net.status
             response_text == ResponseText(net)
         IN IF status # StatusCREATED /\ status # StatusOK
            THEN Outcome(self, CustomError("Failed to create record", status, response_text), 1)
            ELSE LET response_json == from_str(response_text)
                 IN IF ~response_json.ok
                    THEN Outcome(self, ParseError(response_json.err), 1)
                    ELSE LET id == as_str(Index(response_json.val, "id"))
                         IN IF ~id.some
                            THEN Outcome(self, ParseError(MissingIdMsg), 1)
                            ELSE Outcome(self, OkId(id.v), 1)

\* insert_record returning an empty id when the response has none
insert_record_default_id(self, net) ==
    IF ~self.instance_url.some \/ ~self.token.some THEN Outcome(self, Panic, 0)
    ELSE IF ~net.send THEN Outcome(self, ReqwestError, 1)
    ELSE LET status == net.status
             response_text == ResponseText(net)
         IN IF status # StatusCREATED
            THEN Outcome(self, CustomError("Failed to create record", status, response_text), 1)
            ELSE LET response_json == from_str(response_text)
                 IN IF ~response_json.ok
                    THEN Outcome(self, ParseError(response_json.err), 1)
                    ELSE LET id == as_str(Index(response_json.val, "id"))
                         IN Outcome(self, OkId(id.v), 1)

\* SalesforceClient::insert_record(&self, object_type, data)
insert_record(self, net) ==
    IF ~self.instance_url.some \/ ~self.token.some THEN Outcome(self, Panic, 0)
    ELSE IF ~net.send THEN Outcome(self, ReqwestError, 1)
    ELSE LET status == net.status
             response_text == ResponseText(net)
         IN IF status # StatusCREATED
            THEN Outcome(self, CustomError("Failed to create record", status, response_text), 1)
            ELSE LET response_json == from_str(response_text)
                 IN IF ~response_json.ok
                    THEN Outcome(self, ParseError(response_json.err), 1)
                    ELSE LET id == as_str(Index(response_json.val, "id"))
                         IN IF ~id.some
                            THEN Outcome(self, ParseError(MissingIdMsg), 1)
                            ELSE Outcome(self, OkId(id.v), 1)

\* query_records unwrapping the envelope and returning its records
query_records_unwrap(self, net) ==
    IF ~self.instance_url.some \/ ~self.token.some THEN Outcome(self, Panic, 0)
    ELSE IF ~net.send THEN Outcome(self, ReqwestError, 1)
    ELSE LET status == net.status
             response_text == ResponseText(net)
         IN IF status # StatusOK
            THEN Outcome(self, CustomError("Failed to query records", status, response_text), 1)
            ELSE LET response_json == from_str(response_text)
                 IN IF ~response_json.ok
                    THEN Outcome(self, ParseError(response_json.err), 1)
                    ELSE Outcome(self, OkValue(Index(response_json.val, "records")), 1)

\* SalesforceClient::query_records(&self, query)
query_records(self, net) ==
    IF ~self.instance_url.some \/ ~self.token.some THEN Outcome(self, Panic, 0)
    ELSE IF ~net.send THEN Outcome(self, ReqwestError, 1)
    ELSE LET status == net.status
             response_text == ResponseText(net)
         IN IF status # StatusOK
            THEN Outcome(self, CustomError("Failed to query records", status, response_text), 1)
            ELSE LET response_json == from_str(response_text)
                 IN IF ~response_json.ok
                    THEN Outcome(self, ParseError(response_json.err), 1)
                    ELSE Outcome(self, OkValue(response_json.val), 1)

(***************************************************************************)
(* The remote side.  A response is a status line followed by a body; the   *)
(* exchange can fail before a response arrives (send = FALSE) or while the *)
(* body is being received (read = FALSE).                                  *)
(***************************************************************************)
TokenT1U1 == JObj(<<M("access_token", JStr("T1")), M("instance_url", JStr("U1"))>>)
TokenT2U2 == JObj(<<M("instance_url", JStr("U2")), M("token_type", JStr("Bearer")),
                    M("access_token", JStr("T2"))>>)
QueryEnvelope == JObj(<<M("totalSize", JNum("1")), M("done", JBool("true")),
                        M("records", JArr(<<JObj(<<M("Id", JStr("500")),
                                                   M("Subject", JStr("hi"))>>)>>))>>)

\* the JSON values the server may send
JsonPayloads ==
    { TokenT1U1, TokenT2U2,
      JObj(<<M("access_token", JStr("T1"))>>),
      JObj(<<M("instance_url", JStr("U1"))>>),
      JObj(<<M("access_token", JNum("7")), M("instance_url", JStr("U1"))>>),
      JArr(<<JStr("T1"), JStr("U1")>>),
      JArr(<<JStr("id")>>),
      JObj(<<M("id", JStr("001")), M("success", JBool("true"))>>),
      JObj(<<M("id", JNum("7"))>>),
      JObj(<<M("success", JBool("false"))>>),
      JObj(<<>>),
      JStr("id"),
      JNull,
      QueryEnvelope,
      JArr(<<JObj(<<M("errorCode", JStr("INVALID_SESSION_ID"))>>)>>) }

\* body texts that are not JSON
Malformed ==
    { <<>>,
      <<TP("{")>>,
      <<TP("{"), TStr("id"), TStr("001"), TP("}")>>,
      <<TP("{"), TStr("id"), TP(":"), TStr("001"), TP(","), TP("}")>>,
      <<TP("{"), TStr("id"), TP(":"), TStr("001"), TP("}"), TP("}")>>,
      <<TRaw("<html>")>> }

Bodies == { Serialize(v) : v \in JsonPayloads } \cup Malformed

Statuses == {200, 201, 401, 500}

NoNet == [send |-> FALSE, status |-> 0, body |-> <<>>, read |-> FALSE]
Nets == {NoNet} \cup [send : {TRUE}, status : Statuses, body : Bodies, read : BOOLEAN]

(***************************************************************************)
(* State                                                                   *)
(*   client   the SalesforceClient                                         *)
(*   last     the most recent call: operation, exchange (NoNet when the    *)
(*            call sent no request), client before it, result, number of   *)
(*            HTTP requests sent                                           *)
(*   authed   the session stored by the most recent authorize that         *)
(*            returned Ok (NewClient when none has)                        *)
(*   calls    number of calls made so far                                  *)
(*   crashed  the process has panicked                                     *)
(*   pc, log  position of main and the calls it has made so far            *)
(***************************************************************************)
VARIABLES client, last, authed, calls, crashed, pc, log

vars == <<client, last, authed, calls, crashed, pc, log>>

Call(op, net) ==
    LET out == CASE op = "authorize" -> authorize(client, net)
                 [] op = "insert_record" -> insert_record(client, net)
                 [] op = "query_records" -> query_records(client, net)
    IN /\ client' = out.self
       /\ last' = [op |-> op, net |-> IF out.requests = 0 THEN NoNet ELSE net,
                   pre |-> client, res |-> out.res, requests |-> out.requests]
       /\ authed' = IF op = "authorize" /\ out.res.kind = "Ok" THEN out.self ELSE authed
       /\ calls' = calls + 1
       /\ crashed' = (out.res.kind = "Panic")

InitState ==
    /\ client = NewClient
    /\ last = [op |-> "new", net |-> NoNet, pre |-> NewClient, res |-> OkUnit,
               requests |-> 0]
    /\ authed = NewClient
    /\ calls = 0
    /\ crashed = FALSE
    /\ log = <<>>

(***************************************************************************)
(* Spec: any caller of the library, making up to MaxCalls calls in any     *)
(* order on one client.                                                    *)
(***************************************************************************)
Init == InitState /\ pc = "lib"

Authorize ==
    /\ pc = "lib" /\ ~crashed /\ calls < MaxCalls
    /\ \E net \in Nets : Call("authorize", net)
    /\ UNCHANGED <<pc, log>>

InsertRecord ==
    /\ pc = "lib" /\ ~crashed /\ calls < MaxCalls
    /\ \E net \in Nets : Call("insert_record", net)
    /\ UNCHANGED <<pc, log>>

QueryRecords ==
    /\ pc = "lib" /\ ~crashed /\ calls < MaxCalls
    /\ \E net \in Nets : Call("query_records", net)
    /\ UNCHANGED <<pc, log>>

Next == Authorize \/ InsertRecord \/ QueryRecords

Spec == Init /\ [][Next]_vars

(***************************************************************************)
(* SpecMain: the entry point main.                                         *)
(***************************************************************************)
InitMain == InitState /\ pc = "constants"

Logged(op) == Append(log, [op |-> op, ok |-> last'.res.kind = "Ok"])

\* Constants::new(): panics when the configuration cannot be read
MainConstants ==
    /\ pc = "constants"
    /\ \E readable \in BOOLEAN :
         /\ crashed' = ~readable
         /\ pc' = IF readable THEN "authorize" ELSE "done"
    /\ UNCHANGED <<client, last, authed, calls, log>>

\* main going on to the record operations whatever authorize returned
MainAuthorize_continue ==
    /\ pc = "authorize"
    /\ \E net \in Nets : Call("authorize", net)
    /\ log' = Logged("authorize")
    /\ pc' = "insert_record"

\* if let Err(err) = salesforce_client.authorize(&constants).await { return; }
MainAuthorize ==
    /\ pc = "authorize"
    /\ \E net \in Nets : Call("authorize", net)
    /\ log' = Logged("authorize")
    /\ pc' = IF last'.res.kind = "Ok" THEN "insert_record" ELSE "done"

\* match salesforce_client.insert_record("Case", &data).await { .. }
MainInsertRecord ==
    /\ pc = "insert_record"
    /\ \E net \in Nets : Call("insert_record", net)
    /\ log' = Logged("insert_record")
    /\ pc' = IF crashed' THEN "done" ELSE "query_records"

\* match salesforce_client.query_records(query).await { .. }
MainQueryRecords ==
    /\ pc = "query_records"
    /\ \E net \in Nets : Call("query_records", net)
    /\ log' = Logged("query_records")
    /\ pc' = "done"

NextMain == MainConstants \/ MainAuthorize \/ MainInsertRecord \/ MainQueryRecords

SpecMain == InitMain /\ [][NextMain]_vars

(***************************************************************************)
(* Properties                                                              *)
(***************************************************************************)
Authenticated(c) == c.token.some /\ c.instance_url.some
RecordOps == {"insert_record", "query_records"}
\* the whole response, status line and body, reached the client
Completed(net) == net.send /\ net.read
\* v is an object with a member key whose value is a string
HasStrField(v, key) ==
    v.t = "obj" /\ \E i \in 1..Len(v.kv) : v.kv[i].k = key /\ v.kv[i].v.t = "str"
StrFieldOf(v, key) == v.kv[CHOOSE i \in 1..Len(v.kv) : v.kv[i].k = key].v.s
\* v has the shape of a token response
IsTokenResponse(v) == HasStrField(v, "access_token") /\ HasStrField(v, "instance_url")

\* C1: whatever the session was before, an authorize that receives a 200
\* response whose JSON body has string fields access_token = T and
\* instance_url = U returns Ok and leaves the client holding exactly
\* token = T and instance_url = U, both replaced together.
C1_AuthorizeStoresBoth ==
    \A v \in JsonPayloads :
        ( /\ last.op = "authorize" /\ Completed(last.net)
          /\ last.net.status = 200 /\ last.net.body = Serialize(v)
          /\ IsTokenResponse(v) )
        => /\ last.res.kind = "Ok"
           /\ client = [token |-> Some(StrFieldOf(v, "access_token")),
                        instance_url |-> Some(StrFieldOf(v, "instance_url"))]

\* a populated session T1/U1 has been replaced by T2/U2
C1_Witness ==
    /\ last.op = "authorize" /\ last.res.kind = "Ok"
    /\ last.net.body = Serialize(TokenT2U2)
    /\ last.pre = [token |-> Some("T1"), instance_url |-> Some("U1")]
    /\ client = [token |-> Some("T2"), instance_url |-> Some("U2")]

\* C2: for every non-2xx response from the token endpoint authorize fails
\* with a CustomError carrying that status and that body, and the session
\* is what it was before the call.
C2_AuthorizeNon2xx ==
    ( /\ last.op = "authorize" /\ Completed(last.net)
      /\ last.net.status \notin 200..299 )
    => /\ last.res.kind = "CustomError"
       /\ last.res.status = last.net.status
       /\ last.res.text = last.net.body
       /\ client = last.pre

\* a 401 with an error body, received by a client that holds a session
C2_Witness ==
    /\ last.op = "authorize" /\ Completed(last.net) /\ last.net.status = 401
    /\ last.net.body # <<>>
    /\ last.res.kind = "CustomError"
    /\ Authenticated(last.pre) /\ client = last.pre

\* C3: for a 200 response from the token endpoint whose body is missing
\* access_token or instance_url, or is not the expected JSON shape,
\* authorize fails with a ParseError and the session is what it was before.
C3_AuthorizeBadBody ==
    ( /\ last.op = "authorize" /\ Completed(last.net) /\ last.net.status = 200
      /\ ~ \E v \in JsonPayloads : last.net.body = Serialize(v) /\ IsTokenResponse(v) )
    => /\ last.res.kind = "ParseError"
       /\ client = last.pre

\* C4: insert_record or query_records on a client on which no authorize has
\* succeeded returns an error to the caller; the process does not crash and
\* no HTTP request is sent.
C4_PreconditionError ==
    ( last.op \in RecordOps /\ ~Authenticated(last.pre) )
    => /\ last.res.kind \in {"ReqwestError", "ParseError", "CustomError"}
       /\ ~crashed
       /\ last.requests = 0

\* C5: once an authorize has succeeded, after any record operation, whatever
\* its outcome, the client still holds the token and instance_url stored by
\* the most recent successful authorize.
C5_RecordOpsKeepSession ==
    ( last.op \in RecordOps /\ Authenticated(authed) )
    => /\ Authenticated(client)
       /\ client = authed
       /\ client = last.pre

\* a record operation answered 401 after an earlier record operation
C5_Witness ==
    /\ calls = 3 /\ last.op \in RecordOps /\ Authenticated(authed)
    /\ last.res.kind = "CustomError" /\ last.res.status = 401
    /\ client = authed

\* C6: on an authenticated client insert_record returns Ok(id) exactly when
\* the response has status 201 and a JSON body whose id is a string, id being
\* that string; a completed response with any other status yields a
\* CustomError carrying the status and the body.
C6_InsertRecordResult ==
    ( last.op = "insert_record" /\ Authenticated(last.pre) )
    => /\ last.res.kind = "Ok" =>
            /\ Completed(last.net) /\ last.net.status = 201
            /\ \E v \in JsonPayloads :
                 /\ last.net.body = Serialize(v) /\ HasStrField(v, "id")
                 /\ last.res.id = StrFieldOf(v, "id")
       /\ \A v \in JsonPayloads :
            ( /\ Completed(last.net) /\ last.net.status = 201
              /\ last.net.body = Serialize(v) /\ HasStrField(v, "id") )
            => last.res.kind = "Ok" /\ last.res.id = StrFieldOf(v, "id")
       /\ ( Completed(last.net) /\ last.net.status # 201 )
            => /\ last.res.kind = "CustomError"
               /\ last.res.status = last.net.status
               /\ last.res.text = last.net.body

\* a 201 carrying id "001" has been returned as "001"
C6_Witness ==
    /\ last.op = "insert_record" /\ last.net.status = 201
    /\ last.res.kind = "Ok" /\ last.res.id = "001"

\* C7: every 201 response to a create call that has no string id (id absent
\* or not a string, body empty, not JSON or not an object) fails with the
\* ParseError "Missing ID in response".
C7_MissingIdAlways ==
    ( /\ last.op = "insert_record" /\ Authenticated(last.pre)
      /\ Completed(last.net) /\ last.net.status = 201
      /\ ~ \E v \in JsonPayloads : last.net.body = Serialize(v) /\ HasStrField(v, "id") )
    => /\ last.res.kind = "ParseError"
       /\ last.res.msg = MissingIdMsg

\* C7, amended: a 201 response whose body is JSON without a string id (id
\* absent or not a string, or a value that is not an object) fails with the
\* ParseError "Missing ID in response"; a 201 response whose body is empty
\* or not JSON fails with a ParseError carrying the decoder's message.
C7_MissingIdWhenJson ==
    ( /\ last.op = "insert_record" /\ Authenticated(last.pre)
      /\ Completed(last.net) /\ last.net.status = 201 )
    => /\ \A v \in JsonPayloads :
            ( last.net.body = Serialize(v) /\ ~HasStrField(v, "id") )
            => last.res.kind = "ParseError" /\ last.res.msg = MissingIdMsg
       /\ last.net.body \in Malformed
            => last.res.kind = "ParseError" /\ last.res.msg # MissingIdMsg

\* a 201 whose body is a JSON array has been refused for its missing id
C7_Witness ==
    /\ last.op = "insert_record" /\ Completed(last.net) /\ last.net.status = 201
    /\ last.net.body = Serialize(JArr(<<JStr("id")>>))
    /\ last.res.kind = "ParseError" /\ last.res.msg = MissingIdMsg

\* C8: on an authenticated client query_records returns Ok(v) exactly when
\* the response has status 200 and a body that is JSON, v being the value the
\* body denotes; any other status yields a CustomError with the status and
\* the body, and a 200 with a body that is not JSON a ParseError.
C8_QueryRecordsResult ==
    ( last.op = "query_records" /\ Authenticated(last.pre) )
    => /\ last.res.kind = "Ok" =>
            /\ Completed(last.net) /\ last.net.status = 200
            /\ \E v \in JsonPayloads :
                 last.net.body = Serialize(v) /\ last.res.value = v
       /\ \A v \in JsonPayloads :
            ( /\ Completed(last.net) /\ last.net.status = 200
              /\ last.net.body = Serialize(v) )
            => last.res.kind = "Ok" /\ last.res.value = v
       /\ ( Completed(last.net) /\ last.net.status # 200 )
            => /\ last.res.kind = "CustomError"
               /\ last.res.status = last.net.status
               /\ last.res.text = last.net.body
       /\ ( Completed(last.net) /\ last.net.status = 200 /\ last.net.body \in Malformed )
            => last.res.kind = "ParseError"

\* the query envelope has been returned as sent
C8_Witness ==
    /\ last.op = "query_records" /\ last.res.kind = "Ok"
    /\ last.res.value = QueryEnvelope
    /\ last.net.body = Serialize(QueryEnvelope)

\* C9: an exchange that fails at the network level, while the request is
\* sent or while the body is received, yields a ReqwestError, never a
\* ParseError, a CustomError or Ok; and a call sends at most one request.
C9_TransportError ==
    /\ last.requests <= 1
    /\ ( last.requests = 1 /\ ~Completed(last.net) ) => last.res.kind = "ReqwestError"

\* C10: main invokes insert_record and query_records only after an authorize
\* that returned Ok, so the session is populated when a record operation
\* starts; when authorize fails main ends without a record operation, and
\* when insert_record fails main still invokes query_records.
C10_DriverOrder ==
    /\ \A i \in 1..Len(log) :
         log[i].op \in RecordOps
         => \E j \in 1..(i - 1) : log[j].op = "authorize" /\ log[j].ok
    /\ pc \in RecordOps => Authenticated(client)
    /\ last.op \in RecordOps => Authenticated(last.pre)
    /\ ( Len(log) >= 1 /\ ~log[1].ok ) => ( pc = "done" /\ Len(log) = 1 )
    /\ ( Len(log) >= 2 /\ ~log[2].ok )
         => \/ pc = "query_records"
            \/ Len(log) = 3 /\ log[3].op = "query_records"
    /\ pc = "done" => \/ crashed /\ log = <<>>
                      \/ Len(log) = 1 /\ log[1].op = "authorize" /\ ~log[1].ok
                      \/ /\ Len(log) = 3
                         /\ log[1].op = "authorize" /\ log[1].ok
                         /\ log[2].op = "insert_record"
                         /\ log[3].op = "query_records"

\* main has queried after a failed insert
C10_Witness ==
    /\ pc = "done" /\ Len(log) = 3
    /\ log[1].ok /\ ~log[2].ok /\ log[3].op = "query_records"

====
